---- MODULE Spec2Model ----
(***************************************************************************)
(* Model of the Hist / Pmf session of the Think Stats notebooks            *)
(* (chapters 2 and 3): building a Hist or a Pmf from a sequence or from    *)
(* (probabilities, quantities) arrays, the bracket-operator mutations,     *)
(* normalize, and the bias / unbias transforms of the class size paradox.  *)
(*                                                                         *)
(* Floating-point numbers are modelled as exact rationals <<n, d>> in      *)
(* lowest terms (d > 0), extended with the three IEEE-754 values a         *)
(* division by zero produces: <<1, 0>> is +inf, <<-1, 0>> is -inf and      *)
(* <<0, 0>> is NaN.  Rounding is not modelled, so "equal within            *)
(* tolerance" becomes exact equality.                                      *)
(*                                                                         *)
(* A Hist or Pmf is a Pandas Series: a sequence of entries [q, p] whose    *)
(* order is the order of the index.                                        *)
(***************************************************************************)
EXTENDS Integers, Sequences, FiniteSets, TLC

VARIABLES
    t,              \* the sequence last given to Hist.from_seq
    hist,           \* the Hist object bound to `hist`
    seq,            \* the sequence given to Pmf.from_seq
    counts,         \* the values (ps) given to Pmf(ps, qs)
    sizes,          \* the index (qs) given to Pmf(ps, qs)
    pmf,            \* the Pmf object bound to `pmf`
    observed_pmf,   \* the result of the last bias(pmf, ...)
    debiased_pmf,   \* the result of the last unbias(..., ...)
    pmf_copy,       \* the object pmf.copy() made
    copy_ref,       \* the object the name of the copy refers to
    sel,            \* the Hist that smallest / largest last returned
    series,         \* the time series given to split_series
    training,       \* the first Series that split_series returned
    test,           \* the second Series that split_series returned
    files,          \* the files of the working directory
    fetched,        \* how often urlretrieve has retrieved each URL
    biasArg,        \* the Pmf that last call of bias received
    unbiasArg,      \* the Pmf that last call of unbias received
    bound,          \* the names that are bound in the session
    call,           \* the last statement executed: [name, q, v]
    ret,            \* the value the last statement returned
    err,            \* the exception the last statement raised, or "none"
    nops            \* number of statements executed so far

vars == <<t, hist, seq, counts, sizes, pmf, observed_pmf, debiased_pmf,
          pmf_copy, copy_ref, sel, series, training, test, files, fetched,
          biasArg, unbiasArg, bound, call, ret, err, nops>>

\* the time series and the files of the tutorials
tut == <<series, training, test, files, fetched>>

\* the copy of the Pmf, the selection of the Hist, and the tutorials
aux == <<pmf_copy, copy_ref, sel, tut>>

\* the arguments of the constructors, which no later statement changes
args == <<t, seq, counts, sizes>>

----------------------------------------------------------------------------
(* Bounds of the model.                                                    *)

MaxLen == 3     \* longest sequence given to from_seq
MaxQ == 2       \* quantities are drawn from 0 .. MaxQ
MaxPairs == 2   \* longest (ps, qs) arrays given to Pmf(ps, qs)
MaxOps == 2     \* mutating statements applied to the Pmf

Quantities == 0 .. MaxQ

----------------------------------------------------------------------------
(* Extended rational arithmetic (IEEE-754 without rounding).               *)

Abs(n) == IF n < 0 THEN -n ELSE n

Sign(n) == IF n < 0 THEN -1 ELSE IF n > 0 THEN 1 ELSE 0

RECURSIVE GCD(_, _)
GCD(a, b) == IF b = 0 THEN a ELSE GCD(b, a % b)

\* the float n / d for an integer n and a natural d
Rat(n, d) ==
    IF d = 0 THEN <<Sign(n), 0>>
    ELSE LET g == GCD(Abs(n), d) IN <<n \div g, d \div g>>

NaN == <<0, 0>>
Inf == <<1, 0>>
Zero == <<0, 1>>
One == <<1, 1>>
Half == <<1, 2>>

IsNaN(x) == x = NaN
IsInf(x) == x[2] = 0 /\ x[1] # 0
IsFinite(x) == x[2] # 0
IsZero(x) == x = Zero

FromInt(n) == <<n, 1>>

Add(x, y) ==
    IF IsNaN(x) \/ IsNaN(y) THEN NaN
    ELSE IF IsInf(x) THEN (IF IsInf(y) /\ y # x THEN NaN ELSE x)
    ELSE IF IsInf(y) THEN y
    ELSE Rat(x[1] * y[2] + y[1] * x[2], x[2] * y[2])

Mul(x, y) ==
    IF IsNaN(x) \/ IsNaN(y) THEN NaN
    ELSE IF IsInf(x) \/ IsInf(y)
         THEN <<Sign(x[1]) * Sign(y[1]), 0>>   \* inf * 0 is NaN
    ELSE Rat(x[1] * y[1], x[2] * y[2])

\* IEEE division: x / 0 is +-inf for x # 0 and NaN for x = 0
Div(x, y) ==
    IF IsNaN(x) \/ IsNaN(y) THEN NaN
    ELSE IF IsInf(y) THEN (IF IsInf(x) THEN NaN ELSE Zero)
    ELSE IF IsZero(y) THEN <<Sign(x[1]), 0>>
    ELSE IF IsInf(x) THEN <<Sign(x[1]) * Sign(y[1]), 0>>
    ELSE Rat(x[1] * y[2] * Sign(y[1]), x[2] * Abs(y[1]))

----------------------------------------------------------------------------
(* Pandas Series: index (qs) and values (ps).                              *)

Entry(q, p) == [q |-> q, p |-> p]

Qs(P) == [i \in DOMAIN P |-> P[i].q]

Ps(P) == [i \in DOMAIN P |-> P[i].p]

HasKey(P, q) == \E i \in DOMAIN P : P[i].q = q

\* Pmf(ps, qs): the Series with values ps and index qs, stored as given
Pmf(ps, qs) == [i \in DOMAIN qs |-> Entry(qs[i], ps[i])]

\* Series.sum(): the sum of the values, NaN values skipped
RECURSIVE SumUpTo(_, _)
SumUpTo(P, n) ==
    IF n = 0 THEN Zero
    ELSE IF IsNaN(P[n].p) THEN SumUpTo(P, n - 1)
    ELSE Add(SumUpTo(P, n - 1), P[n].p)

SeriesSum(P) == SumUpTo(P, Len(P))

\* series /= total
TrueDiv(P, total) == [i \in DOMAIN P |-> Entry(P[i].q, Div(P[i].p, total))]

\* faulty lookup: a quantity that is not in the index gives NaN
LookupOrNaN(P, q) ==
    IF HasKey(P, q) THEN P[CHOOSE i \in DOMAIN P : P[i].q = q].p ELSE NaN

\* pmf(q): the value at q, 0 when q is not in the index
Lookup(P, q) ==
    IF HasKey(P, q) THEN P[CHOOSE i \in DOMAIN P : P[i].q = q].p ELSE Zero

\* faulty assignment: renormalizes the Series after storing v
SetItemRenormalizing(P, q, v) ==
    LET new == IF HasKey(P, q)
               THEN [i \in DOMAIN P |-> IF P[i].q = q THEN Entry(q, v) ELSE P[i]]
               ELSE Append(P, Entry(q, v))
    IN TrueDiv(new, SeriesSum(new))

\* faulty assignment: stores 0 in place of a negative value
SetItemClamping(P, q, v) ==
    LET w == IF IsFinite(v) /\ v[1] < 0 THEN Zero ELSE v
    IN IF HasKey(P, q)
       THEN [i \in DOMAIN P |-> IF P[i].q = q THEN Entry(q, w) ELSE P[i]]
       ELSE Append(P, Entry(q, w))

\* pmf[q] = v: overwrites the value at q, or appends a new entry
SetItem(P, q, v) ==
    IF HasKey(P, q)
    THEN [i \in DOMAIN P |-> IF P[i].q = q THEN Entry(q, v) ELSE P[i]]
    ELSE Append(P, Entry(q, v))

\* faulty tally: a repeated value does not raise its frequency
RECURSIVE ValueCountsNoRepeat(_)
ValueCountsNoRepeat(S) ==
    IF S = <<>> THEN <<>>
    ELSE LET rest == ValueCountsNoRepeat(SubSeq(S, 1, Len(S) - 1))
             x == S[Len(S)]
         IN IF HasKey(rest, x) THEN rest ELSE Append(rest, Entry(x, 1))

\* series.value_counts(sort=False): the tally of a sequence, one pass
RECURSIVE ValueCounts(_)
ValueCounts(S) ==
    IF S = <<>> THEN <<>>
    ELSE LET rest == ValueCounts(SubSeq(S, 1, Len(S) - 1))
             x == S[Len(S)]
         IN IF HasKey(rest, x)
            THEN [i \in DOMAIN rest |->
                    IF rest[i].q = x THEN Entry(x, rest[i].p + 1) ELSE rest[i]]
            ELSE Append(rest, Entry(x, 1))

\* faulty sort_index: the entries in the order of the tally
SortIndexKeeping(P) == P

\* series.sort_index(): entries in ascending order of quantity
RECURSIVE SortIndex(_)
SortIndex(P) ==
    IF P = <<>> THEN <<>>
    ELSE LET m == CHOOSE i \in DOMAIN P : \A j \in DOMAIN P : P[i].q <= P[j].q
             rest == [k \in 1 .. Len(P) - 1 |-> IF k < m THEN P[k] ELSE P[k + 1]]
         IN <<P[m]>> \o SortIndex(rest)

\* hist.sum()
RECURSIVE HistSumUpTo(_, _)
HistSumUpTo(H, n) == IF n = 0 THEN 0 ELSE HistSumUpTo(H, n - 1) + H[n].p

HistSum(H) == HistSumUpTo(H, Len(H))

\* Hist.from_seq(seq): quantities in ascending order with their frequencies
Hist_from_seq(S) == SortIndex(ValueCounts(S))

\* faulty Pmf.from_seq: divides by the number of distinct quantities
Pmf_from_seq_distinct(S) ==
    LET c == ValueCounts(S)
    IN SortIndex([i \in DOMAIN c |-> Entry(c[i].q, Rat(c[i].p, Len(c)))])

\* Pmf.from_seq(seq): value_counts(normalize=True), the tally divided by the
\* number of values counted, then sort_index
Pmf_from_seq(S) ==
    LET c == ValueCounts(S)
        n == HistSumUpTo(c, Len(c))
    IN SortIndex([i \in DOMAIN c |-> Entry(c[i].q, Rat(c[i].p, n))])

\* faulty lookup: reports whether q appears, not how often
HistLookupPresence(H, q) == IF HasKey(H, q) THEN 1 ELSE 0

\* hist(q): the frequency of q, 0 when q does not appear
HistLookup(H, q) ==
    IF HasKey(H, q) THEN H[CHOOSE i \in DOMAIN H : H[i].q = q].p ELSE 0

\* faulty normalize: divides through by the number of entries
normalize_by_len(P) == TrueDiv(P, FromInt(Len(P)))

\* faulty normalize: divides through by the sum twice
normalize_twice(P) == TrueDiv(TrueDiv(P, SeriesSum(P)), SeriesSum(P))

\* pmf.normalize(): divides through by the sum (the sum is what it returns)
normalize(P) == TrueDiv(P, SeriesSum(P))

\* faulty bias: the products are not normalized
bias_unnormalized(P) ==
    LET ps == [i \in DOMAIN P |-> Mul(P[i].p, FromInt(P[i].q))]
    IN Pmf(ps, Qs(P))

\* faulty bias: divides each probability by its quantity
bias_dividing(P) ==
    LET ps == [i \in DOMAIN P |-> Div(P[i].p, FromInt(P[i].q))]
        new_pmf == Pmf(ps, Qs(P))
    IN normalize(new_pmf)

\* bias(pmf, name)
bias(P) ==
    LET ps == [i \in DOMAIN P |-> Mul(P[i].p, FromInt(P[i].q))]
        new_pmf == Pmf(ps, Qs(P))
    IN normalize(new_pmf)

\* faulty unbias: the quotients are not normalized
unbias_unnormalized(P) ==
    LET ps == [i \in DOMAIN P |-> Div(P[i].p, FromInt(P[i].q))]
    IN Pmf(ps, Qs(P))

\* faulty unbias: multiplies by the quantities, as bias does
unbias_multiplying(P) ==
    LET ps == [i \in DOMAIN P |-> Mul(P[i].p, FromInt(P[i].q))]
        new_pmf == Pmf(ps, Qs(P))
    IN normalize(new_pmf)

\* faulty unbias: leaves out the entries whose quantity is 0
unbias_skipping_zero(P) ==
    LET kept == SelectSeq(P, LAMBDA e : e.q # 0)
        ps == [i \in DOMAIN kept |-> Div(kept[i].p, FromInt(kept[i].q))]
        new_pmf == Pmf(ps, Qs(kept))
    IN normalize(new_pmf)

\* unbias(pmf, name)
unbias(P) ==
    LET ps == [i \in DOMAIN P |-> Div(P[i].p, FromInt(P[i].q))]
        new_pmf == Pmf(ps, Qs(P))
    IN normalize(new_pmf)

\* np.sum(a): the sum of the elements of a, 0 for no elements; a NaN element
\* makes the sum NaN
RECURSIVE NpSum(_)
NpSum(a) ==
    IF a = <<>> THEN Zero
    ELSE Add(NpSum(SubSeq(a, 1, Len(a) - 1)), a[Len(a)])

\* faulty mean: the mean of the quantities, whatever their probabilities
mean_of_qs(P) ==
    Div(NpSum([i \in DOMAIN P |-> FromInt(P[i].q)]), FromInt(Len(P)))

\* pmf.mean(): np.sum(pmf.ps * pmf.qs)
mean(P) == NpSum([i \in DOMAIN P |-> Mul(P[i].p, FromInt(P[i].q))])

----------------------------------------------------------------------------
(* The inputs of the statements.                                           *)

\* sequences given to from_seq
Seqs == UNION {[1 .. n -> Quantities] : n \in 0 .. MaxLen}

\* index arrays given to Pmf(ps, qs): distinct quantities in ascending order,
\* as the class sizes are
Indexes ==
    {qs \in UNION {[1 .. n -> Quantities] : n \in 0 .. MaxPairs} :
        \A i, j \in DOMAIN qs : i < j => qs[i] < qs[j]}

\* values given to Pmf(ps, qs)
PairValues == {Zero, Half, One}

\* values assigned with pmf[q] = v
SetValues == {Rat(-1, 2)}

\* amounts added with pmf[q] += d
Deltas == {Rat(3, 10)}

\* factors applied with pmf[q] *= f
Factors == {Half}

\* URLs given to download: a directory and a file name
Urls == (1 .. MaxPairs) \X Quantities

NoCall == [name |-> "none", q |-> -1, v |-> Zero]

Stmt(name, q, v) == [name |-> name, q |-> q, v |-> v]

----------------------------------------------------------------------------
(* The session.  The model follows one Hist object and one Pmf object from  *)
(* their construction on: each of `hist` and `pmf` is bound once.          *)

Init ==
    /\ t = <<>>
    /\ hist = <<>>
    /\ seq = <<>>
    /\ counts = <<>>
    /\ sizes = <<>>
    /\ pmf = <<>>
    /\ observed_pmf = <<>>
    /\ debiased_pmf = <<>>
    /\ pmf_copy = <<>>
    /\ copy_ref = "none"
    /\ sel = <<>>
    /\ series = <<>>
    /\ training = <<>>
    /\ test = <<>>
    /\ files = {}
    /\ fetched = [u \in Urls |-> 0]
    /\ biasArg = <<>>
    /\ unbiasArg = <<>>
    /\ bound = {}
    /\ call = NoCall
    /\ ret = Zero
    /\ err = "none"
    /\ nops = 0

\* t = [...]; hist = Hist.from_seq(t)
HistFromSeq ==
    /\ "hist" \notin bound
    /\ \E S \in Seqs :
          /\ t' = S
          /\ hist' = Hist_from_seq(S)
    /\ bound' = bound \cup {"hist"}
    /\ call' = Stmt("Hist.from_seq", -1, Zero)
    /\ ret' = Zero
    /\ err' = "none"
    /\ UNCHANGED <<aux, seq, counts, sizes, pmf, observed_pmf, debiased_pmf,
                   biasArg, unbiasArg, nops>>

\* hist(q)
HistCall(q) ==
    /\ "hist" \in bound
    /\ call' = Stmt("hist()", q, Zero)
    /\ ret' = FromInt(HistLookup(hist, q))
    /\ err' = "none"
    /\ UNCHANGED <<aux, args, hist, pmf, observed_pmf, debiased_pmf, biasArg,
                   unbiasArg, bound, nops>>

\* pmf = Pmf.from_seq(seq)
PmfFromSeq ==
    /\ "pmf" \notin bound
    /\ \E S \in Seqs :
          /\ seq' = S
          /\ pmf' = Pmf_from_seq(S)
    /\ bound' = bound \cup {"pmf"}
    /\ call' = Stmt("Pmf.from_seq", -1, Zero)
    /\ ret' = Zero
    /\ err' = "none"
    /\ UNCHANGED <<aux, t, hist, counts, sizes, observed_pmf, debiased_pmf,
                   biasArg, unbiasArg, nops>>

\* pmf = Pmf(ps, qs)
PmfFromPairs ==
    /\ "pmf" \notin bound
    /\ \E qs \in Indexes : \E ps \in [DOMAIN qs -> PairValues] :
          /\ counts' = ps
          /\ sizes' = qs
          /\ pmf' = Pmf(ps, qs)
    /\ bound' = bound \cup {"pmf"}
    /\ call' = Stmt("Pmf", -1, Zero)
    /\ ret' = Zero
    /\ err' = "none"
    /\ UNCHANGED <<aux, t, hist, seq, observed_pmf, debiased_pmf, biasArg,
                   unbiasArg, nops>>

\* pmf[q] = v
PmfSetItem(q, v) ==
    /\ "pmf" \in bound
    /\ nops < MaxOps
    /\ pmf' = SetItem(pmf, q, v)
    /\ call' = Stmt("set", q, v)
    /\ ret' = Zero
    /\ err' = "none"
    /\ nops' = nops + 1
    /\ UNCHANGED <<aux, args, hist, observed_pmf, debiased_pmf, biasArg,
                   unbiasArg, bound>>

\* faulty pmf[q] += d: assigns d, the old value dropped
PmfIAddOverwriting(q, d) ==
    /\ "pmf" \in bound
    /\ nops < MaxOps
    /\ IF HasKey(pmf, q)
       THEN /\ pmf' = SetItem(pmf, q, d)
            /\ err' = "none"
       ELSE /\ pmf' = pmf
            /\ err' = "KeyError"
    /\ call' = Stmt("increment", q, d)
    /\ ret' = Zero
    /\ nops' = nops + 1
    /\ UNCHANGED <<aux, args, hist, observed_pmf, debiased_pmf, biasArg,
                   unbiasArg, bound>>

\* pmf[q] += d: reads pmf[q] (KeyError when q is not in the index), then
\* assigns the sum
PmfIAdd(q, d) ==
    /\ "pmf" \in bound
    /\ nops < MaxOps
    /\ IF HasKey(pmf, q)
       THEN /\ pmf' = SetItem(pmf, q, Add(Lookup(pmf, q), d))
            /\ err' = "none"
       ELSE /\ pmf' = pmf
            /\ err' = "KeyError"
    /\ call' = Stmt("increment", q, d)
    /\ ret' = Zero
    /\ nops' = nops + 1
    /\ UNCHANGED <<aux, args, hist, observed_pmf, debiased_pmf, biasArg,
                   unbiasArg, bound>>

\* pmf[q] *= f: reads pmf[q] (KeyError when q is not in the index), then
\* assigns the product
PmfIMul(q, f) ==
    /\ "pmf" \in bound
    /\ nops < MaxOps
    /\ IF HasKey(pmf, q)
       THEN /\ pmf' = SetItem(pmf, q, Mul(Lookup(pmf, q), f))
            /\ err' = "none"
       ELSE /\ pmf' = pmf
            /\ err' = "KeyError"
    /\ call' = Stmt("scale", q, f)
    /\ ret' = Zero
    /\ nops' = nops + 1
    /\ UNCHANGED <<aux, args, hist, observed_pmf, debiased_pmf, biasArg,
                   unbiasArg, bound>>

\* pmf.normalize()
PmfNormalize ==
    /\ "pmf" \in bound
    /\ nops < MaxOps
    /\ pmf' = normalize(pmf)
    /\ ret' = SeriesSum(pmf)
    /\ call' = Stmt("normalize", -1, Zero)
    /\ err' = "none"
    /\ nops' = nops + 1
    /\ UNCHANGED <<aux, args, hist, observed_pmf, debiased_pmf, biasArg,
                   unbiasArg, bound>>

\* faulty bias: the products are stored in the argument as well
CallBiasInPlace ==
    /\ "pmf" \in bound
    /\ biasArg' = pmf
    /\ observed_pmf' = bias(pmf)
    /\ pmf' = bias(pmf)
    /\ bound' = bound \cup {"observed_pmf"}
    /\ call' = Stmt("bias", -1, Zero)
    /\ ret' = Zero
    /\ err' = "none"
    /\ UNCHANGED <<aux, args, hist, debiased_pmf, unbiasArg, nops>>

\* observed_pmf = bias(pmf, name="observed")
CallBias ==
    /\ "pmf" \in bound
    /\ biasArg' = pmf
    /\ observed_pmf' = bias(pmf)
    /\ bound' = bound \cup {"observed_pmf"}
    /\ call' = Stmt("bias", -1, Zero)
    /\ ret' = Zero
    /\ err' = "none"
    /\ UNCHANGED <<aux, args, hist, pmf, debiased_pmf, unbiasArg, nops>>

\* debiased_pmf = unbias(x, "debiased") for x one of pmf, observed_pmf
CallUnbias(x) ==
    /\ x \in bound \cap {"pmf", "observed_pmf"}
    /\ LET arg == IF x = "pmf" THEN pmf ELSE observed_pmf
       IN /\ unbiasArg' = arg
          /\ debiased_pmf' = unbias(arg)
    /\ bound' = bound \cup {"debiased_pmf"}
    /\ call' = Stmt("unbias", -1, Zero)
    /\ ret' = Zero
    /\ err' = "none"
    /\ UNCHANGED <<aux, args, hist, pmf, observed_pmf, biasArg, nops>>

----------------------------------------------------------------------------
(* The copy of a Pmf.  Python names hold references to objects: the model  *)
(* keeps the object of the name pmf in the variable pmf, the object that   *)
(* copy() makes in pmf_copy, and in copy_ref the object that the name of   *)
(* the copy refers to.                                                     *)

\* a copy that hands back the object it was called on
copy_shared(obj) == obj

\* pmf.copy(): the object the result refers to, a new one
copy(obj) == "pmf_copy"

\* the Pmf read through the name of the copy
CopyValue == IF copy_ref = "pmf" THEN pmf ELSE pmf_copy

\* the statements that modify a Pmf
Updates == {"set", "increment", "scale", "normalize"}

\* the statement reads P[q] first and q is not in the index
Raises(P, name, q) == name \in {"increment", "scale"} /\ ~HasKey(P, q)

\* the Pmf P after the statement name with quantity q and value v
Updated(P, name, q, v) ==
    CASE name = "set" -> SetItem(P, q, v)
      [] name = "increment" -> SetItem(P, q, Add(Lookup(P, q), v))
      [] name = "scale" -> SetItem(P, q, Mul(Lookup(P, q), v))
      [] name = "normalize" -> normalize(P)

\* the arguments of the statement name
StmtArgs(name) ==
    CASE name = "set" -> Quantities \X SetValues
      [] name = "increment" -> Quantities \X Deltas
      [] name = "scale" -> Quantities \X Factors
      [] name = "normalize" -> {<<-1, Zero>>}

\* pmf.copy(), the result bound to a name
PmfCopy ==
    /\ "pmf" \in bound
    /\ copy_ref = "none"
    /\ nops < MaxOps
    /\ copy_ref' = copy("pmf")
    /\ pmf_copy' = pmf
    /\ call' = Stmt("copy", -1, Zero)
    /\ ret' = Zero
    /\ err' = "none"
    /\ nops' = nops + 1
    /\ UNCHANGED <<args, hist, pmf, observed_pmf, debiased_pmf, sel, tut,
                   biasArg, unbiasArg, bound>>

\* one of the statements that modify a Pmf, made on the copy
CopyStmt(name, q, v) ==
    /\ copy_ref # "none"
    /\ nops < MaxOps
    /\ LET new == IF Raises(CopyValue, name, q)
                  THEN CopyValue
                  ELSE Updated(CopyValue, name, q, v)
       IN IF copy_ref = "pmf"
          THEN pmf' = new /\ pmf_copy' = pmf_copy
          ELSE pmf_copy' = new /\ pmf' = pmf
    /\ err' = IF Raises(CopyValue, name, q) THEN "KeyError" ELSE "none"
    /\ ret' = IF name = "normalize" THEN SeriesSum(CopyValue) ELSE Zero
    /\ call' = Stmt("copy." \o name, q, v)
    /\ nops' = nops + 1
    /\ UNCHANGED <<args, hist, observed_pmf, debiased_pmf, copy_ref, sel, tut,
                   biasArg, unbiasArg, bound>>

----------------------------------------------------------------------------
(* Looking up quantities with the bracket operator and the function        *)
(* syntax, in a Hist and in the Pmf made from it.                          *)

\* hist[q]: the bracket operator of the Series, KeyError when q is not in
\* the index
HistGetItem(q) ==
    /\ "hist" \in bound
    /\ call' = Stmt("hist[]", q, Zero)
    /\ IF HasKey(hist, q)
       THEN ret' = FromInt(HistLookup(hist, q)) /\ err' = "none"
       ELSE ret' = Zero /\ err' = "KeyError"
    /\ UNCHANGED <<aux, args, hist, pmf, observed_pmf, debiased_pmf, biasArg,
                   unbiasArg, bound, nops>>

\* the Hist as a Series of floats
AsFloats(H) == [i \in DOMAIN H |-> Entry(H[i].q, FromInt(H[i].p))]

\* faulty proportions: the frequencies divided by the number of quantities
hist_over_len(H) == TrueDiv(AsFloats(H), FromInt(Len(H)))

\* hist / n for n = hist.sum()
hist_over_n(H) == TrueDiv(AsFloats(H), FromInt(HistSum(H)))

\* n = hist.sum(); pmf = hist / n
PmfFromHist ==
    /\ "hist" \in bound
    /\ "pmf" \notin bound
    /\ pmf' = hist_over_n(hist)
    /\ ret' = FromInt(HistSum(hist))
    /\ bound' = bound \cup {"pmf"}
    /\ call' = Stmt("hist / n", -1, Zero)
    /\ err' = "none"
    /\ UNCHANGED <<aux, args, hist, observed_pmf, debiased_pmf, biasArg,
                   unbiasArg, nops>>

\* pmf(q)
PmfCall(q) ==
    /\ "pmf" \in bound
    /\ call' = Stmt("pmf()", q, Zero)
    /\ ret' = Lookup(pmf, q)
    /\ err' = "none"
    /\ UNCHANGED <<aux, args, hist, pmf, observed_pmf, debiased_pmf, biasArg,
                   unbiasArg, bound, nops>>

\* pmf[q]: the bracket operator of the Series, KeyError when q is not in
\* the index
PmfGetItem(q) ==
    /\ "pmf" \in bound
    /\ call' = Stmt("pmf[]", q, Zero)
    /\ IF HasKey(pmf, q)
       THEN ret' = Lookup(pmf, q) /\ err' = "none"
       ELSE ret' = Zero /\ err' = "KeyError"
    /\ UNCHANGED <<aux, args, hist, pmf, observed_pmf, debiased_pmf, biasArg,
                   unbiasArg, bound, nops>>

----------------------------------------------------------------------------
(* The smallest and the largest quantities of a Hist.                      *)

Min(a, b) == IF a < b THEN a ELSE b

Max(a, b) == IF a < b THEN b ELSE a

\* the position a slice bound i stands for in a Series of len entries:
\* a negative bound counts from the end, and bounds are clipped
SliceBound(i, len) == IF i < 0 THEN Max(len + i, 0) ELSE Min(i, len)

\* series[start:stop], entries by position
Slice(H, start, stop) ==
    SubSeq(H, SliceBound(start, Len(H)) + 1, SliceBound(stop, Len(H)))

\* faulty smallest: hist[n:]
smallest_skipping(H, n) == Slice(H, n, Len(H))

\* smallest(hist, n): hist[:n]
smallest(H, n) == Slice(H, 0, n)

\* faulty largest: the entries of hist[-n:] in reverse
largest_reversed(H, n) ==
    LET r == Slice(H, -n, Len(H))
    IN [i \in DOMAIN r |-> r[Len(r) + 1 - i]]

\* largest(hist, n): hist[-n:]
largest(H, n) == Slice(H, -n, Len(H))

\* the numbers of entries asked for
Ns == 0 .. MaxLen + 1

\* smallest(hist, n)
Smallest(n) ==
    /\ "hist" \in bound
    /\ sel' = smallest(hist, n)
    /\ call' = Stmt("smallest", n, Zero)
    /\ ret' = Zero
    /\ err' = "none"
    /\ UNCHANGED <<args, hist, pmf, observed_pmf, debiased_pmf, pmf_copy,
                   copy_ref, tut, biasArg, unbiasArg, bound, nops>>

\* largest(hist, n)
Largest(n) ==
    /\ "hist" \in bound
    /\ sel' = largest(hist, n)
    /\ call' = Stmt("largest", n, Zero)
    /\ ret' = Zero
    /\ err' = "none"
    /\ UNCHANGED <<args, hist, pmf, observed_pmf, debiased_pmf, pmf_copy,
                   copy_ref, tut, biasArg, unbiasArg, bound, nops>>

----------------------------------------------------------------------------
(* Summary statistics.                                                     *)

\* the Pmf that the name x refers to
Named(x) ==
    CASE x = "pmf" -> pmf
      [] x = "observed_pmf" -> observed_pmf
      [] x = "debiased_pmf" -> debiased_pmf

\* x.mean() for x one of pmf, observed_pmf, debiased_pmf
PmfMean(x) ==
    /\ x \in bound
    /\ ret' = mean(Named(x))
    /\ call' = Stmt(x \o ".mean", -1, Zero)
    /\ err' = "none"
    /\ UNCHANGED <<aux, args, hist, pmf, observed_pmf, debiased_pmf, biasArg,
                   unbiasArg, bound, nops>>

----------------------------------------------------------------------------
(* The class sizes of the college.                                         *)

\* ranges.left for ranges = pd.interval_range(start=5, end=50, freq=5)
ranges_left == [i \in 1 .. (50 - 5) \div 5 |-> 5 + 5 * (i - 1)]

\* faulty sizes: the left ends of the ranges, not their midpoints
sizes_left == ranges_left

\* sizes = ranges.left + 2
class_sizes == [i \in DOMAIN ranges_left |-> ranges_left[i] + 2]

\* data["count"]
data_count == <<8, 8, 14, 4, 6, 12, 8, 3, 2>>

\* counts = data["count"]; actual_pmf = Pmf(counts, sizes, name="actual")
ActualPmf ==
    /\ "pmf" \notin bound
    /\ counts' = [i \in DOMAIN data_count |-> FromInt(data_count[i])]
    /\ sizes' = class_sizes
    /\ pmf' = Pmf(counts', sizes')
    /\ bound' = bound \cup {"pmf"}
    /\ call' = Stmt("Pmf", -1, Zero)
    /\ ret' = Zero
    /\ err' = "none"
    /\ UNCHANGED <<aux, t, hist, seq, observed_pmf, debiased_pmf, biasArg,
                   unbiasArg, nops>>

----------------------------------------------------------------------------
(* The mode.                                                               *)

\* x < y for two floats that are numbers
FloatLess(x, y) == x[1] * y[2] < y[1] * x[2]

\* the positions of the Series S that hold its largest value, NaN skipped
ArgMax(S) ==
    {i \in DOMAIN S :
        /\ ~IsNaN(S[i].p)
        /\ \A j \in DOMAIN S : ~IsNaN(S[j].p) => ~FloatLess(S[i].p, S[j].p)}

\* the largest position of the non-empty set of positions I
LastOf(I) == CHOOSE i \in I : \A j \in I : j <= i

\* the smallest position of the non-empty set of positions I
FirstOf(I) == CHOOSE i \in I : \A j \in I : i <= j

\* series.idxmax(): the label of the first position that holds the largest
\* value
idxmax(S) == S[FirstOf(ArgMax(S))].q

\* faulty mode of a Hist: the last of the positions with the largest value
Hist_mode_last(H) == AsFloats(H)[LastOf(ArgMax(AsFloats(H)))].q

\* hist.mode(): the same as hist.idxmax()
Hist_mode(H) == idxmax(AsFloats(H))

\* faulty mode of a Pmf: the last of the positions with the largest value
Pmf_mode_last(P) == P[LastOf(ArgMax(P))].q

\* pmf.mode()
Pmf_mode(P) == idxmax(P)

\* hist.mode(); idxmax raises ValueError on an empty Series
HistMode ==
    /\ "hist" \in bound
    /\ call' = Stmt("hist.mode", -1, Zero)
    /\ IF ArgMax(AsFloats(hist)) = {}
       THEN ret' = Zero /\ err' = "ValueError"
       ELSE ret' = FromInt(Hist_mode(hist)) /\ err' = "none"
    /\ UNCHANGED <<aux, args, hist, pmf, observed_pmf, debiased_pmf, biasArg,
                   unbiasArg, bound, nops>>

\* pmf.mode()
PmfMode ==
    /\ "pmf" \in bound
    /\ call' = Stmt("pmf.mode", -1, Zero)
    /\ IF ArgMax(pmf) = {}
       THEN ret' = Zero /\ err' = "ValueError"
       ELSE ret' = FromInt(Pmf_mode(pmf)) /\ err' = "none"
    /\ UNCHANGED <<aux, args, hist, pmf, observed_pmf, debiased_pmf, biasArg,
                   unbiasArg, bound, nops>>

----------------------------------------------------------------------------
(* The variance.                                                           *)

\* faulty variance: the quantities are squared, not their deviations
var_of_qs(P) ==
    NpSum([i \in DOMAIN P |->
              Mul(P[i].p, Mul(FromInt(P[i].q), FromInt(P[i].q)))])

\* pmf.var(): deviations = pmf.qs - mean; np.sum(pmf.ps * deviations**2)
var(P) ==
    LET deviations == [i \in DOMAIN P |->
                          Add(FromInt(P[i].q), Mul(FromInt(-1), mean(P)))]
    IN NpSum([i \in DOMAIN P |->
                 Mul(P[i].p, Mul(deviations[i], deviations[i]))])

\* pmf.var()
PmfVar ==
    /\ "pmf" \in bound
    /\ ret' = var(pmf)
    /\ call' = Stmt("pmf.var", -1, Zero)
    /\ err' = "none"
    /\ UNCHANGED <<aux, args, hist, pmf, observed_pmf, debiased_pmf, biasArg,
                   unbiasArg, bound, nops>>

----------------------------------------------------------------------------
(* Splitting a time series.                                                *)

\* the time series of the tutorial, its values in order of time
SeriesLoaded ==
    /\ "series" \notin bound
    /\ \E S \in Seqs : series' = S
    /\ bound' = bound \cup {"series"}
    /\ call' = Stmt("series", -1, Zero)
    /\ ret' = Zero
    /\ err' = "none"
    /\ UNCHANGED <<args, hist, pmf, observed_pmf, debiased_pmf, pmf_copy,
                   copy_ref, sel, training, test, files, fetched, biasArg,
                   unbiasArg, nops>>

\* training, test = split_series(series, n):
\* training = series.iloc[:-n]; test = series.iloc[-n:]
split_series(n) ==
    /\ "series" \in bound
    /\ training' = Slice(series, 0, -n)
    /\ test' = Slice(series, -n, Len(series))
    /\ call' = Stmt("split_series", n, Zero)
    /\ ret' = Zero
    /\ err' = "none"
    /\ UNCHANGED <<args, hist, pmf, observed_pmf, debiased_pmf, pmf_copy,
                   copy_ref, sel, series, files, fetched, biasArg, unbiasArg,
                   bound, nops>>

----------------------------------------------------------------------------
(* Downloading the files of a notebook.                                    *)

\* basename(url): the last component of the path
basename(url) == url[Len(url)]

\* exists(filename)
exists(filename) == \E f \in files : f.name = filename

\* what urlretrieve(url, filename) can do: retrieve the whole file; fail
\* before it opens the file; fail after it has written a part of it
Outcomes == {"none", "URLError", "ContentTooShortError"}

\* faulty download: retrieves the URL whether or not the file exists
download_always(url) ==
    /\ \E outcome \in Outcomes :
          /\ err' = outcome
          /\ files' = IF outcome = "URLError" THEN files
                      ELSE {f \in files : f.name # basename(url)} \cup
                           {[name |-> basename(url), from |-> url,
                             whole |-> outcome = "none"]}
          /\ fetched' = IF outcome = "none"
                        THEN [fetched EXCEPT ![url] = @ + 1]
                        ELSE fetched
    /\ call' = [name |-> "download", q |-> -1, v |-> Zero, url |-> url]
    /\ ret' = Zero
    /\ UNCHANGED <<args, hist, pmf, observed_pmf, debiased_pmf, pmf_copy,
                   copy_ref, sel, series, training, test, biasArg, unbiasArg,
                   bound, nops>>

\* download(url)
download(url) ==
    /\ IF ~exists(basename(url))
       THEN \E outcome \in Outcomes :
               /\ err' = outcome
               /\ files' = IF outcome = "URLError" THEN files
                           ELSE files \cup
                                {[name |-> basename(url), from |-> url,
                                  whole |-> outcome = "none"]}
               /\ fetched' = IF outcome = "none"
                             THEN [fetched EXCEPT ![url] = @ + 1]
                             ELSE fetched
       ELSE /\ err' = "none"
            /\ UNCHANGED <<files, fetched>>
    /\ call' = [name |-> "download", q |-> -1, v |-> Zero, url |-> url]
    /\ ret' = Zero
    /\ UNCHANGED <<args, hist, pmf, observed_pmf, debiased_pmf, pmf_copy,
                   copy_ref, sel, series, training, test, biasArg, unbiasArg,
                   bound, nops>>

\* the Hist session of chapter 2
NextHist ==
    \/ HistFromSeq
    \/ \E q \in Quantities : HistCall(q)
    \/ \E n \in Ns : Smallest(n)
    \/ \E n \in Ns : Largest(n)
    \/ HistMode

\* the Pmf session of chapter 3
Next ==
    \/ PmfFromSeq
    \/ PmfFromPairs
    \/ \E q \in Quantities : \E v \in SetValues : PmfSetItem(q, v)
    \/ \E q \in Quantities : \E d \in Deltas : PmfIAdd(q, d)
    \/ \E q \in Quantities : \E f \in Factors : PmfIMul(q, f)
    \/ PmfNormalize

\* the class size paradox of chapter 3
NextBias ==
    \/ PmfFromSeq
    \/ PmfFromPairs
    \/ PmfNormalize
    \/ CallBias
    \/ \E x \in {"pmf", "observed_pmf"} : CallUnbias(x)
    \/ \E x \in {"pmf", "observed_pmf", "debiased_pmf"} : PmfMean(x)

Spec == Init /\ [][Next]_vars

SpecHist == Init /\ [][NextHist]_vars

\* a Pmf and its copy, each modified through its own name
NextCopy ==
    \/ PmfFromPairs
    \/ PmfCopy
    \/ \E q \in Quantities : \E v \in SetValues : PmfSetItem(q, v)
    \/ \E q \in Quantities : \E d \in Deltas : PmfIAdd(q, d)
    \/ \E q \in Quantities : \E f \in Factors : PmfIMul(q, f)
    \/ PmfNormalize
    \/ \E name \in Updates : \E a \in StmtArgs(name) :
          CopyStmt(name, a[1], a[2])

\* a Hist, the Pmf made by dividing it by its total, and lookups in both
NextLookup ==
    \/ HistFromSeq
    \/ PmfFromHist
    \/ \E q \in Quantities : HistGetItem(q)
    \/ \E q \in Quantities : HistCall(q)
    \/ \E q \in Quantities : PmfGetItem(q)
    \/ \E q \in Quantities : PmfCall(q)
    \/ HistMode
    \/ PmfMode

\* the class size paradox on the class sizes of the college, or on the
\* values of a short sequence
NextClass ==
    \/ ActualPmf
    \/ PmfFromSeq
    \/ PmfNormalize
    \/ CallBias
    \/ CallUnbias("observed_pmf")
    \/ \E x \in {"pmf", "observed_pmf", "debiased_pmf"} : PmfMean(x)

\* a Hist, the Pmf made from it, and statements that modify the Pmf
NextOrder ==
    \/ HistFromSeq
    \/ PmfFromHist
    \/ \E q \in Quantities : \E v \in SetValues : PmfSetItem(q, v)
    \/ \E q \in Quantities : \E d \in Deltas : PmfIAdd(q, d)
    \/ \E q \in Quantities : \E f \in Factors : PmfIMul(q, f)
    \/ PmfNormalize

\* a Pmf, statements that modify it, and its mean and variance
NextVar ==
    \/ PmfFromPairs
    \/ \E q \in Quantities : \E v \in SetValues : PmfSetItem(q, v)
    \/ PmfNormalize
    \/ PmfMean("pmf")
    \/ PmfVar

\* the prediction cells of the time series tutorial
NextSplit ==
    \/ SeriesLoaded
    \/ \E n \in Ns : split_series(n)

\* the download cells of the notebooks
NextDownload == \E url \in Urls : download(url)

SpecBias == Init /\ [][NextBias]_vars

SpecDownload == Init /\ [][NextDownload]_vars

SpecSplit == Init /\ [][NextSplit]_vars

SpecVar == Init /\ [][NextVar]_vars

SpecOrder == Init /\ [][NextOrder]_vars

SpecClass == Init /\ [][NextClass]_vars

SpecLookup == Init /\ [][NextLookup]_vars

SpecCopy == Init /\ [][NextCopy]_vars

----------------------------------------------------------------------------
(* Properties.                                                             *)

\* number of positions of the sequence S that hold q
Occurrences(S, q) == Cardinality({i \in DOMAIN S : S[i] = q})

\* quantities looked up in the properties: those of the model and one more
Probes == 0 .. MaxQ + 1

Finite(P) == \A i \in DOMAIN P : IsFinite(P[i].p)

HasNaN(P) == \E i \in DOMAIN P : IsNaN(P[i].p)

\* C1: for every non-empty sequence t, the frequencies of Hist.from_seq(t)
\* add up to len(t).
C1_HistTotalIsLen ==
    ("hist" \in bound /\ t # <<>>) => HistSum(hist) = Len(t)

C1_Witness ==
    /\ "hist" \in bound
    /\ Len(t) = 3
    /\ Len(hist) = 2
    /\ HistSum(hist) = 3

\* C2: for every sequence t and every quantity q, looking q up in
\* Hist.from_seq(t) gives the number of positions of t that hold q, both
\* for the Hist as built and for the value a call hist(q) returns.
C2_HistLookupCounts ==
    "hist" \in bound =>
        /\ \A q \in Probes : HistLookup(hist, q) = Occurrences(t, q)
        /\ call.name = "hist()" => ret = FromInt(Occurrences(t, call.q))

C2_Witness ==
    /\ call.name = "hist()"
    /\ ret = FromInt(2)
    /\ \E q \in Quantities : HistLookup(hist, q) = 1

\* C3: for every non-empty sequence seq, the probabilities of
\* Pmf.from_seq(seq) add up to 1.
C3_FromSeqNormalized ==
    (call.name = "Pmf.from_seq" /\ seq # <<>>) => SeriesSum(pmf) = One

C3_Witness ==
    /\ call.name = "Pmf.from_seq"
    /\ Len(seq) = 3
    /\ Len(pmf) = 2
    /\ SeriesSum(pmf) = One

\* C4: when set, increment and scale statements have left the Pmf with
\* finite probabilities whose sum s is not zero, normalize() returns s,
\* leaves every probability equal to its old value divided by s (the new
\* value times s is the old value), and leaves the probabilities adding up
\* to 1.
C4_Normalize ==
    [][(call'.name = "normalize" /\ Finite(pmf) /\ ~IsZero(SeriesSum(pmf))) =>
          /\ ret' = SeriesSum(pmf)
          /\ Qs(pmf') = Qs(pmf)
          /\ \A i \in DOMAIN pmf : Mul(pmf'[i].p, SeriesSum(pmf)) = pmf[i].p
          /\ SeriesSum(pmf') = One]_vars

C4_Witness ==
    /\ call.name = "normalize"
    /\ nops = 2
    /\ Len(pmf) = 3
    /\ IsFinite(ret)
    /\ ret \notin {Zero, One}
    /\ Finite(pmf)
    /\ SeriesSum(pmf) = One

\* the quantities of P are all strictly positive
PositiveQs(P) == \A i \in DOMAIN P : P[i].q > 0

\* the probabilities of P are finite and none is negative
NonNegative(P) == \A i \in DOMAIN P : IsFinite(P[i].p) /\ P[i].p[1] >= 0

\* two floats are equal numbers (NaN equals nothing)
SameNumber(x, y) == IsFinite(x) /\ IsFinite(y) /\ x = y

\* the sum over the entries of P of probability times quantity
RECURSIVE SumPQ(_, _)
SumPQ(P, n) ==
    IF n = 0 THEN Zero
    ELSE Add(SumPQ(P, n - 1), Mul(P[n].p, FromInt(P[n].q)))

\* the sum over the entries of P of probability divided by quantity
RECURSIVE SumPoverQ(_, _)
SumPoverQ(P, n) ==
    IF n = 0 THEN Zero
    ELSE Add(SumPoverQ(P, n - 1), Div(P[n].p, FromInt(P[n].q)))

\* debiased_pmf is unbias(bias(biasArg))
RoundTripDone ==
    /\ "observed_pmf" \in bound
    /\ "debiased_pmf" \in bound
    /\ unbiasArg = observed_pmf

\* C5 as stated: for any Pmf whose quantities are all strictly positive,
\* unbias(bias(pmf)) gives every quantity the probability pmf gives it
\* (looked at where neither bias nor unbias divided by zero, so that every
\* probability involved is a finite number).
C5_RoundTripAnyPmf ==
    (/\ RoundTripDone
     /\ PositiveQs(biasArg)
     /\ Finite(biasArg) /\ Finite(observed_pmf) /\ Finite(debiased_pmf)) =>
        \A q \in Probes :
            SameNumber(Lookup(debiased_pmf, q), Lookup(biasArg, q))

\* C5 amended: for any Pmf whose quantities are all strictly positive and
\* whose probabilities are non-negative and add up to 1,
\* unbias(bias(pmf)) gives every quantity the probability pmf gives it.
C5_RoundTripNormalized ==
    (/\ RoundTripDone
     /\ PositiveQs(biasArg)
     /\ NonNegative(biasArg)
     /\ SeriesSum(biasArg) = One) =>
        \A q \in Probes :
            SameNumber(Lookup(debiased_pmf, q), Lookup(biasArg, q))

C5_Witness ==
    /\ RoundTripDone
    /\ call.name = "unbias"
    /\ PositiveQs(biasArg)
    /\ NonNegative(biasArg)
    /\ SeriesSum(biasArg) = One
    /\ Len(biasArg) = 2
    /\ biasArg[1].p # biasArg[2].p
    /\ observed_pmf # biasArg
    /\ debiased_pmf = biasArg

\* C6: bias(pmf) keeps the quantities of pmf and gives each quantity q the
\* probability pmf(q) * q divided by the sum of pmf(q') * q' over all
\* quantities q', so that the probabilities add up to 1 (for finite
\* probabilities and a sum of products that is not zero).
C6_BiasFormula ==
    ("observed_pmf" \in bound
     /\ Finite(biasArg)
     /\ ~IsZero(SumPQ(biasArg, Len(biasArg)))) =>
        /\ Qs(observed_pmf) = Qs(biasArg)
        /\ \A i \in DOMAIN biasArg :
              observed_pmf[i].p =
                  Div(Mul(biasArg[i].p, FromInt(biasArg[i].q)),
                      SumPQ(biasArg, Len(biasArg)))
        /\ SeriesSum(observed_pmf) = One

C6_Witness ==
    /\ call.name = "bias"
    /\ Len(biasArg) = 2
    /\ PositiveQs(biasArg)
    /\ biasArg[1].p = Half
    /\ biasArg[2].p = Half
    /\ observed_pmf[1].p = Rat(1, 3)
    /\ observed_pmf[2].p = Rat(2, 3)

\* C7: unbias(pmf) keeps the quantities of pmf and gives each quantity q
\* the probability pmf(q) / q divided by the sum of pmf(q') / q' over all
\* quantities q', so that the probabilities add up to 1 (for quantities
\* other than 0, finite probabilities and a sum of quotients that is not
\* zero).
C7_UnbiasFormula ==
    ("debiased_pmf" \in bound
     /\ ~HasKey(unbiasArg, 0)
     /\ Finite(unbiasArg)
     /\ ~IsZero(SumPoverQ(unbiasArg, Len(unbiasArg)))) =>
        /\ Qs(debiased_pmf) = Qs(unbiasArg)
        /\ \A i \in DOMAIN unbiasArg :
              debiased_pmf[i].p =
                  Div(Div(unbiasArg[i].p, FromInt(unbiasArg[i].q)),
                      SumPoverQ(unbiasArg, Len(unbiasArg)))
        /\ SeriesSum(debiased_pmf) = One

C7_Witness ==
    /\ call.name = "unbias"
    /\ Len(unbiasArg) = 2
    /\ PositiveQs(unbiasArg)
    /\ unbiasArg[1].p = Half
    /\ unbiasArg[2].p = Half
    /\ debiased_pmf[1].p = Rat(2, 3)
    /\ debiased_pmf[2].p = Rat(1, 3)

\* C8: when unbias is given a Pmf that contains the quantity 0, the result
\* has an entry for 0 and that entry is NaN: the quantity is not skipped,
\* and looking it up does not give 0, the value of an absent quantity.
C8_UnbiasZeroQuantityIsNaN ==
    ("debiased_pmf" \in bound /\ HasKey(unbiasArg, 0)) =>
        /\ HasKey(debiased_pmf, 0)
        /\ IsNaN(Lookup(debiased_pmf, 0))
        /\ Lookup(debiased_pmf, 0) # Lookup(debiased_pmf, MaxQ + 1)

C8_Witness ==
    /\ call.name = "unbias"
    /\ Len(unbiasArg) = 2
    /\ unbiasArg[1].q = 0
    /\ unbiasArg[1].p = Half
    /\ unbiasArg[2].p = Half
    /\ IsNaN(debiased_pmf[1].p)
    /\ debiased_pmf[2].p = Zero

\* C9: normalize() on a Pmf whose probabilities add up to zero fails or
\* changes nothing, and leaves no NaN probability; so does the normalize
\* step of bias when the products of probability and quantity add up to
\* zero.
C9_ZeroSumIsSignaled ==
    /\ (call.name = "normalize" /\ IsZero(ret)) =>
           (err # "none" \/ ~HasNaN(pmf))
    /\ (call.name = "bias" /\ Finite(biasArg)
            /\ IsZero(SumPQ(biasArg, Len(biasArg)))) =>
           (err # "none" \/ ~HasNaN(observed_pmf))

\* C10: set, increment and scale change the probability of their quantity
\* only: every other quantity keeps its entry and its probability, and
\* nothing is renormalized; Pmf(ps, qs) stores ps and qs as given.
C10_OnlyNormalizeRenormalizes ==
    [][/\ call'.name \in {"set", "increment", "scale"} =>
            /\ \A q \in Probes \ {call'.q} :
                  /\ HasKey(pmf', q) <=> HasKey(pmf, q)
                  /\ Lookup(pmf', q) = Lookup(pmf, q)
            /\ (call'.name = "set") => Lookup(pmf', call'.q) = call'.v
       /\ call'.name = "Pmf" => (Ps(pmf') = counts' /\ Qs(pmf') = sizes')]_vars

C10_Witness ==
    /\ call.name = "scale"
    /\ err = "none"
    /\ nops = 2
    /\ Len(pmf) = 3
    /\ Finite(pmf)
    /\ SeriesSum(pmf) \notin {Zero, One}
    /\ SeriesSum(Pmf(counts, sizes)) \notin {Zero, One}

\* C11: pmf.copy() gives an independent Pmf with the masses of the original:
\* a set, increment, scale or normalize made on the copy leaves every mass of
\* the original as it was, and one made on the original leaves every mass of
\* the copy as it was.
C11_CopyIsIndependent ==
    [][/\ call'.name = "copy" => CopyValue' = pmf /\ pmf' = pmf
       /\ (copy_ref # "none" /\ call'.name \in {"copy." \o n : n \in Updates})
            => pmf' = pmf
       /\ (copy_ref # "none" /\ call'.name \in Updates)
            => CopyValue' = CopyValue]_vars

\* a statement on the copy has changed it, and the two Pmfs differ
C11_Witness ==
    /\ copy_ref # "none"
    /\ call.name = "copy.set"
    /\ CopyValue # pmf
    /\ nops = MaxOps

Ascending(H) == \A i, j \in DOMAIN H : i < j => H[i].q < H[j].q

\* the Series holds its quantities in descending order
Descending(H) == \A i, j \in DOMAIN H : i < j => H[i].q > H[j].q

\* every entry of S is an entry of H, quantity and count
EntriesOf(S, H) == \A i \in DOMAIN S : \E j \in DOMAIN H : S[i] = H[j]

\* the quantities of H that S leaves out are all larger than those of S
LeavesOutLarger(S, H) ==
    \A j \in DOMAIN H :
        ~HasKey(S, H[j].q) => \A i \in DOMAIN S : S[i].q < H[j].q

\* the quantities of H that S leaves out are all smaller than those of S
LeavesOutSmaller(S, H) ==
    \A j \in DOMAIN H :
        ~HasKey(S, H[j].q) => \A i \in DOMAIN S : S[i].q > H[j].q

\* C13 as stated: largest(n) returns the n quantities with the largest
\* values, each with its count, in descending order of quantity.
C13_LargestDescending ==
    call.name = "largest" =>
        /\ Len(sel) = Min(call.q, Len(hist))
        /\ EntriesOf(sel, hist)
        /\ LeavesOutSmaller(sel, hist)
        /\ Descending(sel)

\* C13, amended: for n >= 1, largest(n) returns the n quantities with the
\* largest values (all of them when the Hist has fewer than n), each with its
\* count, in ascending order of quantity; for n = 0 it returns the whole Hist.
C13_LargestAscending ==
    call.name = "largest" =>
        /\ call.q >= 1 => Len(sel) = Min(call.q, Len(hist))
        /\ call.q = 0 => sel = hist
        /\ EntriesOf(sel, hist)
        /\ LeavesOutSmaller(sel, hist)
        /\ Ascending(sel)

\* largest has selected two quantities and left one out
C13_Witness ==
    /\ call.name = "largest"
    /\ call.q = 2
    /\ Len(sel) = 2
    /\ Len(hist) = 3

\* C14: smallest(n) returns the n quantities with the smallest values (all of
\* them when the Hist has fewer than n), each with its count, in ascending
\* order of quantity.
C14_SmallestAscending ==
    call.name = "smallest" =>
        /\ Len(sel) = Min(call.q, Len(hist))
        /\ EntriesOf(sel, hist)
        /\ LeavesOutLarger(sel, hist)
        /\ Ascending(sel)

\* smallest has selected two quantities and left one out
C14_Witness ==
    /\ call.name = "smallest"
    /\ call.q = 2
    /\ Len(sel) = 2
    /\ Len(hist) = 3

\* the float x is a number and is not negative
IsNonNegative(x) == IsFinite(x) /\ x[1] >= 0

\* C16 as stated: in every state the program reaches, every probability of
\* the Pmf is non-negative (states with a NaN or infinite probability, which
\* a zero sum produces, are left aside).
C16_MassesNonNegative ==
    ("pmf" \in bound /\ Finite(pmf)) => NonNegative(pmf)

\* C16, amended: a Pmf made from a sequence, or from probabilities none of
\* which is negative, has no negative probability; incrementing by an amount
\* that is not negative, scaling by a factor that is not negative, and
\* normalizing a sum that is not zero keep it so; set stores the value it is
\* given, a negative one included.
C16_NonNegativePreserved ==
    [][/\ call'.name = "Pmf.from_seq" => NonNegative(pmf')
       /\ (call'.name = "Pmf" /\ \A i \in DOMAIN counts' :
                                    IsNonNegative(counts'[i]))
            => NonNegative(pmf')
       /\ (/\ NonNegative(pmf)
           /\ \/ call'.name \in {"increment", "scale"}
                    /\ IsNonNegative(call'.v)
              \/ call'.name = "normalize" /\ ~IsZero(SeriesSum(pmf)))
            => NonNegative(pmf')
       /\ call'.name = "set" =>
            /\ Lookup(pmf', call'.q) = call'.v
            /\ NonNegative(pmf') <=>
                 /\ IsNonNegative(call'.v)
                 /\ \A i \in DOMAIN pmf :
                       pmf[i].q # call'.q => IsNonNegative(pmf[i].p)]_vars

\* set has stored a negative probability in a Pmf that had none
C16_Witness ==
    /\ call.name = "set"
    /\ nops = 1
    /\ Len(pmf) > 1
    /\ ~IsNonNegative(Lookup(pmf, call.q))
    /\ \A i \in DOMAIN pmf : pmf[i].q # call.q => pmf[i].p[1] > 0

\* the sum of the elements of the sequence of integers S
RECURSIVE SeqSum(_)
SeqSum(S) == IF S = <<>> THEN 0 ELSE S[1] + SeqSum(Tail(S))

\* C17: pmf.mean() is the sum over all entries of probability times
\* quantity, and for the Pmf made from a non-empty sequence S it is
\* sum(S) / len(S): 2.6 for [1, 2, 2, 3, 5].
C17_Mean ==
    /\ call.name = "pmf.mean" =>
         /\ ret = SumPQ(pmf, Len(pmf))
         /\ (seq # <<>> /\ pmf = Pmf_from_seq(seq)) =>
               ret = Rat(SeqSum(seq), Len(seq))
    /\ mean(Pmf_from_seq(<<1, 2, 2, 3, 5>>)) = Rat(13, 5)

\* the mean of a Pmf made from a sequence of three different values
C17_Witness ==
    /\ call.name = "pmf.mean"
    /\ Len(seq) = 3
    /\ Len(pmf) = 3
    /\ pmf = Pmf_from_seq(seq)
    /\ ret = One

\* x <= y for two floats that are numbers
Le(x, y) == x[1] * y[2] <= y[1] * x[2]

\* the quantities to which P gives a positive probability
Support(P) == {P[i].q : i \in {j \in DOMAIN P : P[j].p[1] > 0}}

\* C18 as stated: for any Pmf whose quantities are all positive, the mean of
\* bias(pmf) is at least the mean of pmf, and the two are equal only when
\* all the quantities with positive probability are equal (Pmfs with a NaN or
\* infinite probability are left aside).
C18_BiasRaisesMeanAnyPmf ==
    (/\ "observed_pmf" \in bound
     /\ PositiveQs(biasArg)
     /\ Finite(biasArg) /\ Finite(observed_pmf)) =>
        /\ Le(mean(biasArg), mean(observed_pmf))
        /\ mean(observed_pmf) = mean(biasArg) =>
              Cardinality(Support(biasArg)) <= 1

\* C18, amended: for any Pmf whose quantities are all positive and whose
\* probabilities are non-negative and add up to 1, the mean of bias(pmf) is
\* at least the mean of pmf, and the two are equal only when all the
\* quantities with positive probability are equal.
C18_BiasRaisesMean ==
    (/\ "observed_pmf" \in bound
     /\ PositiveQs(biasArg)
     /\ NonNegative(biasArg)
     /\ SeriesSum(biasArg) = One) =>
        /\ Finite(observed_pmf)
        /\ Le(mean(biasArg), mean(observed_pmf))
        /\ mean(observed_pmf) = mean(biasArg) =>
              Cardinality(Support(biasArg)) <= 1

\* the mean of the biased Pmf has been computed and is larger than the mean
\* of the normalized Pmf it was made from, which has two quantities
C18_Witness ==
    /\ call.name = "observed_pmf.mean"
    /\ PositiveQs(biasArg)
    /\ NonNegative(biasArg)
    /\ SeriesSum(biasArg) = One
    /\ Cardinality(Support(biasArg)) = 2
    /\ ret = mean(observed_pmf)
    /\ ret # mean(biasArg)

\* the float x is within tol of the float c
Within(x, c, tol) ==
    /\ IsFinite(x)
    /\ Le(Add(c, Mul(FromInt(-1), tol)), x)
    /\ Le(x, Add(c, tol))

\* C19: for the 65 classes of the college, normalizing the Pmf made from the
\* counts returns 65; the mean of the normalized Pmf is 23.7 (within 0.1),
\* the mean of the biased Pmf is 29.1 (within 0.2), and the mean of
\* unbias(bias(actual)) is the mean of the actual Pmf.
C19_ClassSizes ==
    sizes = class_sizes =>
        /\ (call.name = "normalize" /\ nops = 1) => ret = FromInt(65)
        /\ ("pmf" \in bound /\ nops >= 1) =>
             /\ Within(mean(pmf), Rat(237, 10), Rat(1, 10))
             /\ call.name = "pmf.mean" => ret = mean(pmf)
        /\ "observed_pmf" \in bound =>
             /\ Within(mean(observed_pmf), Rat(291, 10), Rat(2, 10))
             /\ call.name = "observed_pmf.mean" => ret = mean(observed_pmf)
        /\ ("debiased_pmf" \in bound /\ nops >= 1) =>
             /\ SameNumber(mean(debiased_pmf), mean(pmf))
             /\ call.name = "debiased_pmf.mean" => ret = mean(pmf)

\* the mean of unbias(bias(actual)) has been computed, actual normalized
\* before it was biased
C19_Witness ==
    /\ call.name = "debiased_pmf.mean"
    /\ Len(pmf) = 9
    /\ SeriesSum(biasArg) = One
    /\ unbiasArg = observed_pmf
    /\ ret = Rat(1540, 65)

\* C20: Pmf.from_seq(S) is Hist.from_seq(S) divided by its total: the two
\* have the same quantities, and each quantity has the probability
\* count / len(S); for [1, 2, 2, 3, 5] that is 0.4 at 2, 0.2 at 1 and 0 at 99.
C20_PmfIsHistOverTotal ==
    /\ "pmf" \in bound =>
         /\ Qs(pmf) = Qs(Pmf_from_seq(t))
         /\ Qs(pmf) = Qs(hist)
         /\ \A q \in Probes :
               /\ Lookup(pmf, q) = Lookup(Pmf_from_seq(t), q)
               /\ t # <<>> =>
                    Lookup(pmf, q) = Rat(HistLookup(hist, q), Len(t))
    /\ LET S == <<1, 2, 2, 3, 5>>
       IN /\ Pmf_from_seq(S) = hist_over_n(Hist_from_seq(S))
          /\ Lookup(Pmf_from_seq(S), 2) = Rat(4, 10)
          /\ Lookup(Pmf_from_seq(S), 1) = Rat(2, 10)
          /\ Lookup(Pmf_from_seq(S), 99) = Zero

\* the Hist of a sequence with a repeated value has been divided by its total
C20_Witness ==
    /\ call.name = "hist / n"
    /\ Len(t) = 3
    /\ Len(hist) = 2
    /\ pmf = Pmf_from_seq(t)
    /\ ret = FromInt(3)

\* the Pmf as Pmf(counts, sizes) made it
PairsPmf == Pmf(counts, sizes)

\* C21: starting from the probability p at a quantity q of the Pmf,
\* pmf[q] += d followed by pmf[q] *= f leaves (p + d) * f at q; from 0.2 at
\* the quantity 2, adding 0.3 and multiplying by 0.5 leaves 0.25.
C21_IncrementThenScale ==
    [][/\ (/\ call.name = "increment" /\ err = "none" /\ nops = 1
           /\ copy_ref = "none"
           /\ call'.name = "scale" /\ call'.q = call.q) =>
             /\ err' = "none"
             /\ HasKey(PairsPmf, call.q)
             /\ Lookup(pmf', call.q) =
                   Mul(Add(Lookup(PairsPmf, call.q), call.v), call'.v)
       /\ LET p0 == SetItem(Pmf(<<Half>>, <<1>>), 2, Rat(2, 10))
              p1 == SetItem(p0, 2, Add(Lookup(p0, 2), Rat(3, 10)))
              p2 == SetItem(p1, 2, Mul(Lookup(p1, 2), Rat(5, 10)))
          IN Lookup(p2, 2) = Rat(25, 100)]_vars

\* pmf[q] += d and then pmf[q] *= f have been made on a quantity whose
\* probability was not 0
C21_Witness ==
    /\ call.name = "scale"
    /\ err = "none"
    /\ nops = 2
    /\ copy_ref = "none"
    /\ Len(pmf) = 2
    /\ ~IsZero(Lookup(PairsPmf, call.q))
    /\ Lookup(pmf, call.q) =
          Mul(Add(Lookup(PairsPmf, call.q), Rat(3, 10)), call.v)

\* the largest of the frequencies of the Hist H
MaxCount(H) == CHOOSE c \in {H[i].p : i \in DOMAIN H} :
                  \A i \in DOMAIN H : H[i].p <= c

\* the quantities of the Hist H that have the largest frequency
MostCommon(H) == {H[i].q : i \in {j \in DOMAIN H : H[j].p = MaxCount(H)}}

\* C22: hist.mode() returns a quantity whose count is the largest count of
\* the Hist, the smallest such quantity when several share that count.
C22_HistMode ==
    (call.name = "hist.mode" /\ hist # <<>>) =>
        /\ err = "none"
        /\ \E q \in MostCommon(hist) :
              /\ ret = FromInt(q)
              /\ \A r \in MostCommon(hist) : q <= r
        /\ HistLookup(hist, ret[1]) = MaxCount(hist)

\* the mode of a Hist in which several quantities share the largest count
C22_Witness ==
    /\ call.name = "hist.mode"
    /\ Len(hist) > 1
    /\ Cardinality(MostCommon(hist)) = Len(hist)
    /\ ret = FromInt(hist[1].q)

\* C23: for every non-empty sequence t, hist.mode() of Hist.from_seq(t) and
\* pmf.mode() of the Pmf made from that Hist are the same quantity, also when
\* several quantities share the largest count.
C23_ModesAgree ==
    ("pmf" \in bound /\ t # <<>>) =>
        /\ Pmf_mode(pmf) = Hist_mode(hist)
        /\ call.name = "pmf.mode" =>
              err = "none" /\ ret = FromInt(Hist_mode(hist))
        /\ call.name = "hist.mode" =>
              err = "none" /\ ret = FromInt(Pmf_mode(pmf))

\* the mode of a Pmf made from a Hist in which two quantities share the
\* largest count
C23_Witness ==
    /\ call.name = "pmf.mode"
    /\ Len(t) = 3
    /\ Cardinality(MostCommon(hist)) > 1
    /\ ret = FromInt(hist[1].q)

\* the Series holds no quantity twice
Unique(P) == \A i, j \in DOMAIN P : P[i].q = P[j].q => i = j

\* C24 as stated: in every state the program reaches, the Hist and the Pmf
\* hold each quantity once, in strictly ascending order, whatever the order
\* in which the quantities were observed or inserted.
C24_QuantitiesAscending ==
    /\ "hist" \in bound => Ascending(hist)
    /\ "pmf" \in bound => Ascending(pmf)

\* C24, amended: a Hist or Pmf made from a sequence holds each distinct
\* value of the sequence once, in strictly ascending order, whatever the
\* order of the sequence, the i-th count or probability belonging to the
\* i-th quantity; a Pmf holds each quantity once in every state, but
\* pmf[q] = v for a quantity that it does not hold appends q after the
\* others, and the other statements keep the order of the quantities.
C24_OrderAfterFromSeq ==
    [][/\ call'.name = "Hist.from_seq" =>
            /\ Ascending(hist') /\ Ascending(Pmf_from_seq(t'))
            /\ {Qs(hist')[i] : i \in DOMAIN hist'} = {t'[i] : i \in DOMAIN t'}
            /\ Qs(Pmf_from_seq(t')) = Qs(hist')
            /\ Len(Ps(hist')) = Len(Qs(hist'))
            /\ \A i \in DOMAIN hist' :
                  Ps(hist')[i] = Occurrences(t', Qs(hist')[i])
       /\ "pmf" \in bound' => Unique(pmf')
       /\ call'.name = "hist / n" => Qs(pmf') = Qs(hist)
       /\ (call'.name = "set" /\ ~HasKey(pmf, call'.q)) =>
             pmf' = Append(pmf, Entry(call'.q, call'.v))
       /\ (\/ call'.name \in {"increment", "scale", "normalize"}
           \/ call'.name = "set" /\ HasKey(pmf, call'.q)) =>
             Qs(pmf') = Qs(pmf)]_vars

\* pmf[q] = v has appended a quantity smaller than those the Pmf held
C24_Witness ==
    /\ call.name = "set"
    /\ nops = 1
    /\ Len(pmf) = 3
    /\ pmf[3].q = 0
    /\ ~Ascending(pmf)
    /\ Unique(pmf)

\* the sum over the entries of P of probability times the square of the
\* difference between the quantity and m
RECURSIVE SumSqDev(_, _, _)
SumSqDev(P, m, n) ==
    IF n = 0 THEN Zero
    ELSE LET d == Add(FromInt(P[n].q), Mul(FromInt(-1), m))
         IN Add(SumSqDev(P, m, n - 1), Mul(P[n].p, Mul(d, d)))

\* C25 as stated: pmf.var() is the sum over the entries of probability times
\* the squared deviation of the quantity from the mean; for a Pmf whose
\* probabilities add up to 1 it is at least 0, and 0 exactly when all the
\* quantities with positive probability are equal.
C25_VarianceAnyNormalized ==
    (call.name = "pmf.var" /\ Finite(pmf)) =>
        /\ ret = SumSqDev(pmf, SumPQ(pmf, Len(pmf)), Len(pmf))
        /\ SeriesSum(pmf) = One =>
              /\ Le(Zero, ret)
              /\ IsZero(ret) <=> Cardinality(Support(pmf)) <= 1

\* C25, amended: pmf.var() is the sum over the entries of probability times
\* the squared deviation of the quantity from the mean; for a Pmf whose
\* probabilities are non-negative and add up to 1 it is at least 0, and 0
\* exactly when all the quantities with positive probability are equal.
C25_Variance ==
    (call.name = "pmf.var" /\ Finite(pmf)) =>
        /\ ret = SumSqDev(pmf, SumPQ(pmf, Len(pmf)), Len(pmf))
        /\ (NonNegative(pmf) /\ SeriesSum(pmf) = One) =>
              /\ Le(Zero, ret)
              /\ IsZero(ret) <=> Cardinality(Support(pmf)) <= 1

\* the variance of a normalized Pmf with two quantities of positive
\* probability
C25_Witness ==
    /\ call.name = "pmf.var"
    /\ NonNegative(pmf)
    /\ SeriesSum(pmf) = One
    /\ Cardinality(Support(pmf)) = 2
    /\ ~IsZero(ret)

\* C26: bias(pmf, name) and unbias(pmf, name) make a new Pmf and leave their
\* argument as it was: after the call the Pmf passed in has the quantities
\* and probabilities it had before, and the result has the quantities of the
\* argument.
C26_ArgumentUnchanged ==
    [][/\ call'.name = "bias" =>
            /\ pmf' = pmf
            /\ biasArg' = pmf
            /\ Qs(observed_pmf') = Qs(pmf)
       /\ call'.name = "unbias" =>
            /\ pmf' = pmf
            /\ observed_pmf' = observed_pmf
            /\ unbiasArg' \in {pmf, observed_pmf}
            /\ Qs(debiased_pmf') = Qs(unbiasArg')]_vars

\* bias has made, from a Pmf with two quantities, a Pmf with other
\* probabilities
C26_Witness ==
    /\ call.name = "bias"
    /\ Len(pmf) = 2
    /\ biasArg = pmf
    /\ Finite(observed_pmf)
    /\ observed_pmf # pmf

\* C27: for a Hist with k quantities and every n >= 0, smallest(hist, n) and
\* largest(hist, n) each return min(n, k) entries, none for n = 0.
C27_SelectionSize ==
    (call.name \in {"smallest", "largest"} /\ call.q >= 0) =>
        Len(sel) = Min(call.q, Len(hist))

\* C28: for a series of length L and every n with 0 <= n <= L,
\* split_series(series, n) returns the first L - n elements as the training
\* part and the last n elements as the test part, and the training part
\* followed by the test part is the series.
C28_SplitPartitions ==
    (call.name = "split_series" /\ call.q <= Len(series)) =>
        /\ training = SubSeq(series, 1, Len(series) - call.q)
        /\ test = SubSeq(series, Len(series) - call.q + 1, Len(series))
        /\ training \o test = series

\* C29: when normalize() has just been called on a Pmf whose sum was a
\* number other than zero, calling it again returns 1 and leaves every
\* probability as it was.
C29_NormalizeIdempotent ==
    [][(/\ call.name = "normalize" /\ IsFinite(ret) /\ ~IsZero(ret)
        /\ call'.name = "normalize") =>
          /\ ret' = One
          /\ pmf' = pmf]_vars

\* normalize() has been called twice on a Pmf of two quantities whose sum
\* was neither 0 nor 1
C29_Witness ==
    /\ call.name = "normalize"
    /\ nops = 2
    /\ ret = One
    /\ Len(pmf) = 2
    /\ Qs(pmf) = sizes
    /\ NonNegative(pmf)
    /\ SeriesSum(PairsPmf) \notin {Zero, One}

\* the URL url has not been retrieved twice, and not both url and another
\* URL with its file name have been retrieved
AtMostOnce(fs, url) ==
    /\ fs[url] <= 1
    /\ \A u \in Urls \ {url} :
          basename(u) = basename(url) => fs[u] + fs[url] <= 1

\* C30: download(url) retrieves the URL only when no file named
\* basename(url) exists: a call for a name that exists changes nothing, no
\* file name is retrieved more than once, and after a download that raised
\* nothing a file named basename(url) exists.
C30_DownloadOnce ==
    [][call'.name = "download" =>
          LET url == call'.url IN
          /\ exists(basename(url)) =>
                /\ files' = files /\ fetched' = fetched /\ err' = "none"
          /\ fetched' # fetched =>
                /\ ~exists(basename(url))
                /\ fetched' = [fetched EXCEPT ![url] = @ + 1]
          /\ err' = "none" => \E f \in files' : f.name = basename(url)
          /\ AtMostOnce(fetched', url)]_vars

\* a second URL with the name of a file retrieved before has been given to
\* download, and has not been retrieved
C30_Witness ==
    /\ call.name = "download"
    /\ err = "none"
    /\ fetched[call.url] = 0
    /\ \E u \in Urls : basename(u) = basename(call.url) /\ fetched[u] = 1
    /\ \E f \in files : f.name = basename(call.url) /\ f.whole

====
